---- MODULE Spec2Model ----
(***************************************************************************)
(* Smart Civic Issue Reporting System (src/api/main.py): the in-memory     *)
(* issue table, the upload directory and the four issue handlers           *)
(* report_issue, list_issues, update_status and analytics_summary.         *)
(*                                                                         *)
(* Conventions.  A Python Optional is a sequence of length at most one:    *)
(* None is << >> and a present value x is << x >>.  A str is a sequence of *)
(* one-character strings.  A dict is the sequence of its items in          *)
(* insertion order.  A datetime is an integer number of clock ticks.       *)
(***************************************************************************)
EXTENDS Integers, Sequences, FiniteSets, TLC

VARIABLES
    issues_db,        \* the module-level dict issues_db (line 81)
    files,            \* names of the files that exist in UPLOAD_DIR
    clock,            \* the latest datetime.utcnow() value a handler stored
    insertion_order,  \* history: ids in the order line 175 first stored them
    last              \* the latest handler to run and how it answered

vars == <<issues_db, files, clock, insertion_order, last>>

---------------------------------------------------------------------------
(* Bounds of the model *)

\* how many uuids uuid4() can hand out, hence how many submissions get an id
MaxUuid == 2
\* the largest value of the clock
MaxClock == 2

---------------------------------------------------------------------------
(* Python values *)

None == << >>
Some(x) == << x >>

RECURSIVE Sum(_)
\* sum(list)
Sum(s) == IF s = << >> THEN 0 ELSE Head(s) + Sum(Tail(s))

UpperAlpha == << "A", "B", "C", "D", "E", "F", "G", "H", "I", "J", "K", "L", "M",
                 "N", "O", "P", "Q", "R", "S", "T", "U", "V", "W", "X", "Y", "Z" >>
LowerAlpha == << "a", "b", "c", "d", "e", "f", "g", "h", "i", "j", "k", "l", "m",
                 "n", "o", "p", "q", "r", "s", "t", "u", "v", "w", "x", "y", "z" >>

LowerChar(c) ==
    IF \E i \in DOMAIN UpperAlpha : UpperAlpha[i] = c
    THEN LowerAlpha[CHOOSE i \in DOMAIN UpperAlpha : UpperAlpha[i] = c]
    ELSE c

\* str.lower()
Lower(s) == [ i \in DOMAIN s |-> LowerChar(s[i]) ]

\* str.split(".")[-1]: what follows the last dot, the whole string without one
SplitLast(s) ==
    LET dots == { i \in DOMAIN s : s[i] = "." }
        from == IF dots = {} THEN 1
                ELSE 1 + (CHOOSE i \in dots : \A j \in dots : j <= i)
    IN  SubSeq(s, from, Len(s))

\* dict: keys(), get(k), d[k] = v, values()
DictKeys(d) == { d[i].key : i \in DOMAIN d }

DictGet(d, k) ==
    IF k \in DictKeys(d)
    THEN Some(d[CHOOSE i \in DOMAIN d : d[i].key = k].value)
    ELSE None

DictSetMovesToEnd(d, k, v) ==
    Append(SelectSeq(d, LAMBDA e : e.key # k), [key |-> k, value |-> v])

\* d[k] = v keeps the position of a key the dict already holds
DictSet(d, k, v) ==
    IF k \in DictKeys(d)
    THEN [ i \in DOMAIN d |-> IF d[i].key = k THEN [key |-> k, value |-> v] ELSE d[i] ]
    ELSE Append(d, [key |-> k, value |-> v])

DictValues(d) == [ i \in DOMAIN d |-> d[i].value ]

---------------------------------------------------------------------------
(* Models: IssueCategory, IssueStatus, Issue *)

IssueCategory == { "pothole", "streetlight", "garbage", "water", "others" }

IssueStatus == { "reported", "acknowledged", "in_progress", "resolved" }

LatMin == -90
LatMax == 90
LonMin == -180
LonMax == 180

latitude_validOffByOne(v) == ~(v < LatMin \/ v > LatMax + 1)

\* Issue.latitude_valid: TRUE when the validator returns, FALSE when it raises
latitude_valid(v) == ~(v < LatMin \/ v > LatMax)

\* Issue.longitude_valid
longitude_valid(v) == ~(v < LonMin \/ v > LonMax)

AI_TEXT == "AI: Detected potential infrastructure issue-please verify."

\* analyze_photo_ai
analyze_photo_ai(file_path) == AI_TEXT

PHOTO_EXTS == { <<"j","p","g">>, <<"j","p","e","g">>, <<"p","n","g">>,
                <<"g","i","f">>, <<"b","m","p">> }
AUDIO_EXTS == { <<"m","p","3">>, <<"w","a","v">>, <<"o","g","g">>, <<"w","e","b","m">> }
VIDEO_EXTS == { <<"m","p","4">>, <<"w","e","b","m">>, <<"m","o","v">>,
                <<"a","v","i">>, <<"m","k","v">> }

allowed_fileCaseSensitive(filename, allowed_exts) ==
    /\ \E i \in DOMAIN filename : filename[i] = "."
    /\ SplitLast(filename) \in allowed_exts

\* allowed_file
allowed_file(filename, allowed_exts) ==
    /\ \E i \in DOMAIN filename : filename[i] = "."
    /\ Lower(SplitLast(filename)) \in allowed_exts

---------------------------------------------------------------------------
(* report_issue *)

Truthy(opt) == opt # None /\ opt[1] # ""

\* jwt.decode(access_token, JWT_SECRET, ...): the payload, None on JWTError
jwt_decode(token) == IF token.signed THEN Some(token.payload) ELSE None

\* lines 103-115: the status code and detail of the authentication step
authenticate(access_token) ==
    IF access_token = None
    THEN [code |-> 401, detail |-> "Not authenticated"]
    ELSE LET payload == jwt_decode(access_token[1]) IN
         IF payload = None
         THEN [code |-> 401, detail |-> "Invalid authentication token"]
         ELSE IF ~(Truthy(payload[1].name) /\ Truthy(payload[1].email)
                   /\ Truthy(payload[1].picture))
         THEN [code |-> 401, detail |-> "Incomplete user information"]
         ELSE [code |-> 200, detail |-> ""]

\* with open(path, "wb") as f: f.write(await upload.read())
\* open() creates the file; a failing read or write leaves it behind
write_upload(fs, filename, io) ==
    IF io = "open_fails" THEN [files |-> fs, ok |-> FALSE]
    ELSE IF io = "write_fails" THEN [files |-> fs \cup {filename}, ok |-> FALSE]
    ELSE [files |-> fs \cup {filename}, ok |-> TRUE]

\* one "if photo: / if audio: / if video:" block of report_issue
save_attachment(fs, upload, issue_id, tag, allowed_exts, bad_detail, fail_detail) ==
    IF upload = None
    THEN [files |-> fs, code |-> 200, detail |-> "", filename |-> None]
    ELSE IF ~allowed_file(upload[1].filename, allowed_exts)
    THEN [files |-> fs, code |-> 400, detail |-> bad_detail, filename |-> None]
    ELSE LET file_ext == SplitLast(upload[1].filename)
             filename == << issue_id, tag, file_ext >>
             w        == write_upload(fs, filename, upload[1].io)
         IN  IF w.ok
             THEN [files |-> w.files, code |-> 200, detail |-> "",
                   filename |-> Some(filename)]
             ELSE [files |-> w.files, code |-> 500,
                   detail |-> fail_detail, filename |-> None]

Failure(db, fs, code, detail) ==
    [issues_db |-> db, files |-> fs, code |-> code, detail |-> detail, body |-> None]

\* report_issue: issue_id is what uuid4() returns on line 117 and now what
\* datetime.utcnow() returns on line 118
report_issue(db, fs, req, issue_id, now) ==
    LET auth == authenticate(req.access_token) IN
    IF auth.code # 200 THEN Failure(db, fs, auth.code, auth.detail) ELSE
    LET payload == jwt_decode(req.access_token[1])[1]
        p == save_attachment(fs, req.photo, issue_id, "_photo.", PHOTO_EXTS,
                             "Photo must be an image file", "Photo upload failed")
    IN
    IF p.code # 200 THEN Failure(db, p.files, p.code, p.detail) ELSE
    LET a == save_attachment(p.files, req.audio, issue_id, "_audio.", AUDIO_EXTS,
                             "Audio must be a valid audio file", "Audio upload failed")
    IN
    IF a.code # 200 THEN Failure(db, a.files, a.code, a.detail) ELSE
    LET v == save_attachment(a.files, req.video, issue_id, "_video.", VIDEO_EXTS,
                             "Video must be a valid video file", "Video upload failed")
    IN
    IF v.code # 200 THEN Failure(db, v.files, v.code, v.detail) ELSE
    IF ~(latitude_valid(req.latitude) /\ longitude_valid(req.longitude))
    THEN Failure(db, v.files, 500, "ValidationError")
    ELSE
    LET issue_obj ==
            [ id             |-> issue_id,
              category       |-> req.category,
              description    |-> req.description,
              latitude       |-> req.latitude,
              longitude      |-> req.longitude,
              photo_filename |-> p.filename,
              audio_filename |-> a.filename,
              video_filename |-> v.filename,
              ai_analysis    |-> IF req.photo = None THEN None
                                 ELSE Some(analyze_photo_ai(p.filename[1])),
              status         |-> "reported",
              created_at     |-> now,
              updated_at     |-> now,
              user_name      |-> payload.name,
              user_email     |-> payload.email,
              user_avatar    |-> payload.picture ]
    IN  [ issues_db |-> DictSet(db, issue_id, issue_obj), files |-> v.files,
          code |-> 200, detail |-> "", body |-> Some(issue_obj) ]

---------------------------------------------------------------------------
(* list_issues, update_status, analytics_summary *)

\* list_issues: "if status:" and "if category:" each filter the running list
list_issues(db, status, category) ==
    LET results  == DictValues(db)
        byStatus == IF status # None
                    THEN SelectSeq(results, LAMBDA i : i.status = status[1])
                    ELSE results
    IN  IF category # None
        THEN SelectSeq(byStatus, LAMBDA i : i.category = category[1])
        ELSE byStatus

update_statusResolvedIsFinal(db, issue_id, status_update, now) ==
    LET issue == DictGet(db, issue_id) IN
    IF issue = None \/ issue[1].status = "resolved"
    THEN [issues_db |-> db, code |-> 404, detail |-> "Issue not found", body |-> None]
    ELSE LET updated == [issue[1] EXCEPT !.status = status_update, !.updated_at = now]
         IN  [issues_db |-> DictSet(db, issue_id, updated), code |-> 200,
              detail |-> "", body |-> Some(updated)]

update_statusResetsCreatedAt(db, issue_id, status_update, now) ==
    LET issue == DictGet(db, issue_id) IN
    IF issue = None
    THEN [issues_db |-> db, code |-> 404, detail |-> "Issue not found", body |-> None]
    ELSE LET updated == [issue[1] EXCEPT !.status = status_update, !.updated_at = now,
                                         !.created_at = now]
         IN  [issues_db |-> DictSet(db, issue_id, updated), code |-> 200,
              detail |-> "", body |-> Some(updated)]

update_statusUpserts(db, issue_id, status_update, now) ==
    LET issue == DictGet(db, issue_id) IN
    IF issue = None
    THEN [issues_db |-> DictSet(db, issue_id,
                          [ id |-> issue_id, category |-> "others", description |-> "",
                            latitude |-> 0, longitude |-> 0, photo_filename |-> None,
                            audio_filename |-> None, video_filename |-> None,
                            ai_analysis |-> None, status |-> status_update,
                            created_at |-> now, updated_at |-> now, user_name |-> None,
                            user_email |-> None, user_avatar |-> None ]),
          code |-> 404, detail |-> "Issue not found", body |-> None]
    ELSE LET updated == [issue[1] EXCEPT !.status = status_update, !.updated_at = now]
         IN  [issues_db |-> DictSet(db, issue_id, updated), code |-> 200,
              detail |-> "", body |-> Some(updated)]

\* update_status: now is what datetime.utcnow() returns on line 196
update_status(db, issue_id, status_update, now) ==
    LET issue == DictGet(db, issue_id) IN
    IF issue = None
    THEN [issues_db |-> db, code |-> 404, detail |-> "Issue not found", body |-> None]
    ELSE LET updated == [issue[1] EXCEPT !.status = status_update, !.updated_at = now]
         IN  [issues_db |-> DictSet(db, issue_id, updated), code |-> 200,
              detail |-> "", body |-> Some(updated)]

\* by_category[k] = by_category.get(k, 0) + 1 and by_status[k] += 1
Increment(counts, k) ==
    IF k \in DOMAIN counts
    THEN [counts EXCEPT ![k] = @ + 1]
    ELSE [ x \in DOMAIN counts \cup {k} |-> IF x = k THEN 1 ELSE counts[x] ]

EmptyCounts == [ x \in {} |-> 0 ]

RECURSIVE summary_loopCountsZeroDelta(_, _)
summary_loopCountsZeroDelta(issues, acc) ==
    IF issues = << >> THEN acc
    ELSE LET issue == Head(issues)
             delta == issue.updated_at - issue.created_at
         IN  summary_loopCountsZeroDelta(Tail(issues),
               [ by_category    |-> Increment(acc.by_category, issue.category),
                 by_status      |-> Increment(acc.by_status, issue.status),
                 response_times |->
                     IF issue.status = "resolved" /\ delta >= 0
                     THEN Append(acc.response_times, delta)
                     ELSE acc.response_times ])

RECURSIVE summary_loop(_, _)
\* the for loop of analytics_summary over the values still to visit
summary_loop(issues, acc) ==
    IF issues = << >> THEN acc
    ELSE LET issue == Head(issues)
             delta == issue.updated_at - issue.created_at
         IN  summary_loop(Tail(issues),
               [ by_category    |-> Increment(acc.by_category, issue.category),
                 by_status      |-> Increment(acc.by_status, issue.status),
                 response_times |->
                     IF issue.status = "resolved" /\ delta > 0
                     THEN Append(acc.response_times, delta)
                     ELSE acc.response_times ])

\* sum(response_times) / len(response_times): the quotient num / den
Mean(response_times) == [num |-> Sum(response_times), den |-> Len(response_times)]

\* analytics_summary: each mapping holds exactly the keys the loop created
analytics_summary(db) ==
    LET acc == summary_loop(DictValues(db),
                            [ by_category |-> EmptyCounts, by_status |-> EmptyCounts,
                              response_times |-> << >> ])
    IN  [ total_issues       |-> Len(db),
          issues_by_category |-> acc.by_category,
          issues_by_status   |-> acc.by_status,
          average_resolution_time_seconds |->
              IF acc.response_times # << >> THEN Some(Mean(acc.response_times))
              ELSE None ]

---------------------------------------------------------------------------
(* Requests the handlers are driven with *)

ValidToken ==
    Some([ signed |-> TRUE,
           payload |-> [ name |-> Some("Asha"), email |-> Some("asha@example.org"),
                         picture |-> Some("https://example.org/asha.png") ] ])
UnsignedToken == Some([ValidToken[1] EXCEPT !.signed = FALSE])
IncompleteToken == Some([ValidToken[1] EXCEPT !.payload.picture = None])

Upload(filename, io) == Some([filename |-> filename, io |-> io])

PngName == << "a", ".", "p", "n", "g" >>
ExeName == << "x", ".", "e", "x", "e" >>
NoDotName == << "p", "n", "g" >>
Mp3Name == << "b", ".", "M", "P", "3" >>
Mp4Name == << "c", ".", "t", "a", "r", ".", "m", "p", "4" >>

\* authenticated, in range, nothing attached
PlainRequest ==
    [ access_token |-> ValidToken, category |-> "pothole", description |-> "desc",
      latitude |-> LatMax, longitude |-> LonMax,
      photo |-> None, audio |-> None, video |-> None ]

\* authenticated, in range, three acceptable attachments that all save
FullRequest ==
    [ PlainRequest EXCEPT !.category = "garbage",
                          !.latitude = LatMin, !.longitude = LonMin,
                          !.photo = Upload(PngName, "ok"),
                          !.audio = Upload(Mp3Name, "ok"),
                          !.video = Upload(Mp4Name, "ok") ]

ReportRequests ==
    { PlainRequest, FullRequest,
      [PlainRequest EXCEPT !.access_token = None],
      [PlainRequest EXCEPT !.access_token = UnsignedToken],
      [PlainRequest EXCEPT !.access_token = IncompleteToken],
      [PlainRequest EXCEPT !.latitude = LatMax + 1],
      [PlainRequest EXCEPT !.latitude = LatMin - 1],
      [PlainRequest EXCEPT !.longitude = LonMax + 1],
      [PlainRequest EXCEPT !.longitude = LonMin - 1],
      [FullRequest EXCEPT !.latitude = LatMax + 5],
      [PlainRequest EXCEPT !.photo = Upload(ExeName, "ok")],
      [PlainRequest EXCEPT !.photo = Upload(NoDotName, "ok")],
      [PlainRequest EXCEPT !.photo = Upload(PngName, "open_fails")],
      [PlainRequest EXCEPT !.photo = Upload(PngName, "write_fails")],
      [FullRequest EXCEPT !.audio = Upload(ExeName, "ok")],
      [FullRequest EXCEPT !.audio = Upload(Mp3Name, "open_fails")],
      [FullRequest EXCEPT !.video = Upload(ExeName, "ok")],
      [FullRequest EXCEPT !.video = Upload(Mp4Name, "write_fails")] }

StatusRequests ==
    { FullRequest, [FullRequest EXCEPT !.access_token = None] }

\* accepted, unauthenticated and out-of-range submissions
SubmitRequests ==
    { PlainRequest, FullRequest,
      [PlainRequest EXCEPT !.access_token = None],
      [PlainRequest EXCEPT !.latitude = LatMax + 1],
      [PlainRequest EXCEPT !.latitude = LatMin - 1],
      [PlainRequest EXCEPT !.longitude = LonMax + 1],
      [PlainRequest EXCEPT !.longitude = LonMin - 1],
      [FullRequest EXCEPT !.latitude = LatMax + 5] }

SubmitStatuses == { "reported", "resolved" }

Uuids == 1 .. MaxUuid

\* ids a client may name in update_status: every uuid, and one never issued
RequestIds == 0 .. MaxUuid

\* the uuids that name no issue and no file so far
FreshUuids == { u \in Uuids : u \notin DictKeys(issues_db) /\ \A f \in files : f[1] # u }

\* uuid4(): handlers compare ids only for equality, so which unused id comes
\* back is immaterial and the model takes the first
uuid4 == CHOOSE u \in FreshUuids : \A w \in FreshUuids : u <= w

\* datetime.utcnow(): any value not before the last one stored
Now == clock .. MaxClock

OptionalStatus == { None } \cup { Some(s) : s \in IssueStatus }
OptionalCategory == { None } \cup { Some(c) : c \in IssueCategory }

ListRequests ==
    { [status |-> None, category |-> None],
      [status |-> Some("resolved"), category |-> None],
      [status |-> None, category |-> Some("pothole")],
      [status |-> Some("reported"), category |-> Some("garbage")] }

---------------------------------------------------------------------------
(* The state machine *)

Response(op, r) == [op |-> op, code |-> r.code, detail |-> r.detail]

Init ==
    /\ issues_db = << >>
    /\ files = {}
    /\ clock = 0
    /\ insertion_order = << >>
    /\ last = [op |-> "none", code |-> 0, detail |-> ""]

\* POST /issues.  Only a call that succeeds stores now, so a call that fails
\* draws a single value
ReportIssue(requests) ==
    \E req \in requests :
        /\ authenticate(req.access_token).code = 200 => FreshUuids # {}
        /\ LET issue_id == IF FreshUuids # {} THEN uuid4 ELSE 0
               succeeds == report_issue(issues_db, files, req, issue_id, clock).code = 200
           IN  \E now \in IF succeeds THEN Now ELSE {clock} :
                   LET r == report_issue(issues_db, files, req, issue_id, now) IN
                   /\ issues_db' = r.issues_db
                   /\ files' = r.files
                   /\ clock' = IF r.code = 200 THEN now ELSE clock
                   /\ insertion_order' = IF r.code = 200
                                         THEN Append(insertion_order, issue_id)
                                         ELSE insertion_order
                   /\ last' = Response("report_issue", r)

\* GET /issues: the handler returns results and writes nothing
ListIssues ==
    \E req \in ListRequests :
        LET results == list_issues(issues_db, req.status, req.category) IN
        /\ last' = [op |-> "list_issues", code |-> 200, detail |-> ""]
        /\ UNCHANGED <<issues_db, files, clock, insertion_order>>

\* PATCH /issues/{issue_id}/status.  Only a call that finds the issue reads
\* the clock
UpdateStatus(statuses) ==
    \E issue_id \in RequestIds, status_update \in statuses :
        \E now \in IF issue_id \in DictKeys(issues_db) THEN Now ELSE {clock} :
            LET r == update_status(issues_db, issue_id, status_update, now) IN
            /\ issues_db' = r.issues_db
            /\ clock' = IF r.code = 200 THEN now ELSE clock
            /\ last' = Response("update_status", r)
            /\ UNCHANGED <<files, insertion_order>>

\* GET /analytics/summary: the handler returns summary and writes nothing
AnalyticsSummary ==
    LET summary == analytics_summary(issues_db) IN
    /\ last' = [op |-> "analytics_summary", code |-> 200, detail |-> ""]
    /\ UNCHANGED <<issues_db, files, clock, insertion_order>>

\* every handler, driven with every request
Next ==
    \/ ReportIssue(ReportRequests)
    \/ ListIssues
    \/ UpdateStatus(IssueStatus)
    \/ AnalyticsSummary

Spec == Init /\ [][Next]_vars

\* the handlers driven with one kind of accepted submission and every status
NextStatus ==
    \/ ReportIssue(StatusRequests)
    \/ ListIssues
    \/ UpdateStatus(IssueStatus)
    \/ AnalyticsSummary

SpecStatus == Init /\ [][NextStatus]_vars

\* the handlers driven with accepted and out-of-range submissions and two
\* target statuses
NextSubmit ==
    \/ ReportIssue(SubmitRequests)
    \/ ListIssues
    \/ UpdateStatus(SubmitStatuses)
    \/ AnalyticsSummary

SpecSubmit == Init /\ [][NextSubmit]_vars

---------------------------------------------------------------------------
(* Vocabulary of the properties *)

Issues == DictValues(issues_db)

Stored(db, id) == DictGet(db, id)[1]

OutOfRange(req) ==
    \/ req.latitude < -90 \/ req.latitude > 90
    \/ req.longitude < -180 \/ req.longitude > 180

\* an attachment that is absent, or carries the given acceptable name and saves
Acceptable(upload, filename) ==
    upload = None \/ (upload[1].filename = filename /\ upload[1].io = "ok")

\* authenticated, coordinates in range, every attachment acceptable and saved
ValidSubmission(req) ==
    /\ req.access_token = ValidToken
    /\ ~OutOfRange(req)
    /\ Acceptable(req.photo, PngName)
    /\ Acceptable(req.audio, Mp3Name)
    /\ Acceptable(req.video, Mp4Name)

\* the response reports a validation error: a rejected attachment type or a
\* rejected coordinate
ValidationError(r) ==
    \/ r.code = 400
    \/ r.code = 500 /\ r.detail = "ValidationError"

\* the response reports that saving an attachment failed
StorageFailure(r) ==
    r.code = 500 /\
    r.detail \in { "Photo upload failed", "Audio upload failed", "Video upload failed" }

\* the records agree on every field but status and updated_at: on id,
\* category, description, latitude, longitude, the attachment fields,
\* ai_analysis, the reporter fields and created_at
SameButStatus(old, new) ==
    new = [old EXCEPT !.status = new.status, !.updated_at = new.updated_at]

\* every record but the one under id is the same in both tables
OthersUnchanged(db, after, id) ==
    \A k \in DictKeys(db) \ {id} : DictGet(after, k) = DictGet(db, k)

Matches(issue, status, category) ==
    /\ status # None => issue.status = status[1]
    /\ category # None => issue.category = category[1]

Delta(issue) == issue.updated_at - issue.created_at

Qualifying == { i \in DOMAIN Issues : Issues[i].status = "resolved" /\ Delta(Issues[i]) > 0 }

RECURSIVE DeltaSum(_)
DeltaSum(S) ==
    IF S = {} THEN 0
    ELSE LET i == CHOOSE x \in S : TRUE IN Delta(Issues[i]) + DeltaSum(S \ {i})

CountCategory(c) == Cardinality({ i \in DOMAIN Issues : Issues[i].category = c })

CountStatus(st) == Cardinality({ i \in DOMAIN Issues : Issues[i].status = st })

\* an id uuid4() may return next: the first that names no issue and no file,
\* be it one past the pool
UnusedId ==
    CHOOSE u \in 1 .. MaxUuid + 1 :
        /\ u \notin DictKeys(issues_db) /\ \A f \in files : f[1] # u
        /\ \A w \in 1 .. u - 1 : w \in DictKeys(issues_db) \/ \E f \in files : f[1] = w

---------------------------------------------------------------------------
(* Properties *)

\* C1: every execution of report_issue that ends in a validation error (bad
\* photo/audio/video extension, coordinate out of range) has written no
\* attachment file and left issues_db unchanged.
C1_ValidationBeforePersistence ==
    [][ (last'.op = "report_issue" /\ ValidationError(last'))
            => (files' = files /\ issues_db' = issues_db) ]_vars

\* C2: a submission whose latitude is outside [-90,90] or whose longitude is
\* outside [-180,180] fails and stores nothing: the ids and the cardinality of
\* issues_db are what they were, whatever the other fields and attachments.
C2_InvalidLocationStoresNothing ==
    \A req \in { q \in ReportRequests : OutOfRange(q) }, now \in Now :
        LET issue_id == UnusedId
            r == report_issue(issues_db, files, req, issue_id, now)
        IN
        OutOfRange(req) =>
            /\ r.code # 200
            /\ r.body = None
            /\ DictKeys(r.issues_db) = DictKeys(issues_db)
            /\ Len(r.issues_db) = Len(issues_db)
            /\ r.issues_db = issues_db

\* C2 witness: an out-of-range submission that carried acceptable attachments
\* was just refused by the Issue validators while the table held an issue.
C2_Witness ==
    /\ last = [op |-> "report_issue", code |-> 500, detail |-> "ValidationError"]
    /\ Len(issues_db) >= 1
    /\ \E f \in files : f[1] \notin DictKeys(issues_db)

\* C3: a valid submission stores exactly one new Issue under a fresh id and
\* returns it with status reported and created_at = updated_at; every other
\* record of issues_db is unchanged.
C3_ValidSubmissionStoresOne ==
    \A req \in { q \in ReportRequests : ValidSubmission(q) }, now \in Now :
        LET issue_id == UnusedId
            r == report_issue(issues_db, files, req, issue_id, now)
        IN
        ValidSubmission(req) =>
            /\ r.code = 200
            /\ issue_id \notin DictKeys(issues_db)
            /\ DictKeys(r.issues_db) = DictKeys(issues_db) \cup {issue_id}
            /\ Len(r.issues_db) = Len(issues_db) + 1
            /\ OthersUnchanged(issues_db, r.issues_db, issue_id)
            /\ r.body = DictGet(r.issues_db, issue_id)
            /\ r.body # None
            /\ r.body[1].id = issue_id
            /\ r.body[1].status = "reported"
            /\ r.body[1].created_at = r.body[1].updated_at
            /\ r.body[1].created_at = now

\* C3 witness: a submission with attachments was just accepted next to an
\* older issue, and sits in the table as reported with equal timestamps.
C3_Witness ==
    /\ last = [op |-> "report_issue", code |-> 200, detail |-> ""]
    /\ Len(issues_db) >= 2
    /\ LET issue == Issues[Len(Issues)] IN
        /\ issue.status = "reported"
        /\ issue.created_at = issue.updated_at
        /\ issue.photo_filename # None
        /\ issue.audio_filename # None

\* C4: update_status(id, s) on an existing issue changes only that issue's
\* status and updated_at; every other field, every other issue and the set of
\* ids are unchanged, and updated_at does not decrease.  Repeating the call with
\* the same s leaves status = s and updated_at non-decreasing.
C4_UpdateStatusFrame ==
    \A issue_id \in DictKeys(issues_db), s \in IssueStatus, now \in Now :
        LET r   == update_status(issues_db, issue_id, s, now)
            old == Stored(issues_db, issue_id)
            new == Stored(r.issues_db, issue_id)
        IN  /\ r.code = 200
            /\ DictKeys(r.issues_db) = DictKeys(issues_db)
            /\ Len(r.issues_db) = Len(issues_db)
            /\ OthersUnchanged(issues_db, r.issues_db, issue_id)
            /\ SameButStatus(old, new)
            /\ new.created_at = old.created_at
            /\ new.status = s
            /\ new.updated_at >= old.updated_at
            /\ \A again \in now .. MaxClock :
                   LET r2   == update_status(r.issues_db, issue_id, s, again)
                       new2 == Stored(r2.issues_db, issue_id)
                   IN  /\ new2.status = s
                       /\ new2.updated_at >= new.updated_at
                       /\ SameButStatus(old, new2)

\* C4 witness: a status update just succeeded on one of two stored issues, and
\* an issue carries a status and an updated_at that only an update gives.
C4_Witness ==
    /\ last = [op |-> "update_status", code |-> 200, detail |-> ""]
    /\ Len(issues_db) >= 2
    /\ \E i \in DOMAIN Issues :
        /\ Issues[i].status # "reported"
        /\ Issues[i].updated_at > Issues[i].created_at
        /\ Issues[i].photo_filename # None

\* C5: when the save of one attachment fails during report_issue, the whole
\* submission is aborted atomically: an error is returned, no Issue is
\* inserted and nothing of the submission remains, not even an attachment
\* saved earlier in the same call.
C5_StorageFailureIsAtomic ==
    [][ (last'.op = "report_issue" /\ StorageFailure(last'))
            => (issues_db' = issues_db /\ files' = files) ]_vars

\* C6: update_status on an id that is not in issues_db answers 404 and leaves
\* issues_db entirely unchanged: no record appears under that id and no stored
\* record's status or updated_at moves.
C6_UpdateMissingIsNotFound ==
    \A issue_id \in RequestIds \ DictKeys(issues_db), s \in IssueStatus, now \in Now :
        LET r == update_status(issues_db, issue_id, s, now) IN
        /\ r.code = 404
        /\ r.body = None
        /\ DictGet(r.issues_db, issue_id) = None
        /\ r.issues_db = issues_db

\* C6 witness: a status update on an unknown id was just answered 404 while
\* the table held issues.
C6_Witness ==
    /\ last = [op |-> "update_status", code |-> 404, detail |-> "Issue not found"]
    /\ Len(issues_db) >= 1
    /\ RequestIds \ DictKeys(issues_db) # {}

\* C7: list_issues(status?, category?) returns exactly the stored issues that
\* satisfy every filter present, each once, in the order of insertion; a
\* status update does not move an issue in that order.
C7_ListFiltersInInsertionOrder ==
    /\ Len(insertion_order) = Len(issues_db)
    /\ \A status \in OptionalStatus, category \in OptionalCategory :
        LET got  == list_issues(issues_db, status, category)
            want == SelectSeq(insertion_order,
                        LAMBDA id : Matches(Stored(issues_db, id), status, category))
        IN  /\ Len(got) = Len(want)
            /\ \A i \in DOMAIN got :
                   got[i].id = want[i] /\ got[i] = Stored(issues_db, want[i])

\* C7 witness: the table was just listed while it held issues of two
\* categories, the older of which was updated after the newer was inserted.
C7_Witness ==
    /\ last.op = "list_issues"
    /\ Len(issues_db) >= 2
    /\ Issues[1].category # Issues[2].category
    /\ Issues[1].status = "resolved"
    /\ Issues[1].updated_at > Issues[2].created_at

\* C8: analytics_summary returns issues_by_category with an entry for each of
\* the five categories and issues_by_status with an entry for each of the four
\* statuses, zero counts included; each entry is the number of stored issues
\* with that category or status, and total_issues the number of stored issues.
C8_SummaryHasEveryKey ==
    last.op = "analytics_summary" =>
        LET summary == analytics_summary(issues_db) IN
        /\ summary.total_issues = Len(issues_db)
        /\ DOMAIN summary.issues_by_category = IssueCategory
        /\ DOMAIN summary.issues_by_status = IssueStatus
        /\ \A c \in IssueCategory :
               summary.issues_by_category[c] = CountCategory(c)
        /\ \A s \in IssueStatus :
               summary.issues_by_status[s] = CountStatus(s)

\* C9: average_resolution_time_seconds is the arithmetic mean of
\* updated_at - created_at over exactly the stored issues that are resolved
\* with a strictly positive delta, and null when no issue qualifies.
C9_AverageOverPositiveResolved ==
    LET avg == analytics_summary(issues_db).average_resolution_time_seconds IN
    IF Qualifying = {}
    THEN avg = None
    ELSE /\ avg # None
         /\ avg[1].num = DeltaSum(Qualifying)
         /\ avg[1].den = Cardinality(Qualifying)

\* C9 witness: the summary was just computed over two resolved issues, one
\* with a positive delta and one with delta zero, and an unresolved one or none.
C9_Witness ==
    /\ last.op = "analytics_summary"
    /\ \E i, j \in DOMAIN Issues :
        /\ Issues[i].status = "resolved" /\ Delta(Issues[i]) > 0
        /\ Issues[j].status = "resolved" /\ Delta(Issues[j]) = 0

\* C10: no status transition is rejected because of the source state: from
\* each of the four statuses update_status reaches each of the four, resolved
\* included as a source; and a stored status is always one of the four.
C10_AnyTransitionAllowed ==
    /\ \A i \in DOMAIN Issues : Issues[i].status \in IssueStatus
    /\ \A issue_id \in DictKeys(issues_db), from \in IssueStatus, to \in IssueStatus :
        LET placed == update_status(issues_db, issue_id, from, clock)
            moved  == update_status(placed.issues_db, issue_id, to, clock)
        IN  /\ placed.code = 200
            /\ Stored(placed.issues_db, issue_id).status = from
            /\ moved.code = 200
            /\ Stored(moved.issues_db, issue_id).status = to

\* C10 witness: a status update just succeeded and left a resolved issue next
\* to one that is back at reported after an update.
C10_Witness ==
    /\ last = [op |-> "update_status", code |-> 200, detail |-> ""]
    /\ \E i, j \in DOMAIN Issues :
        /\ Issues[i].status = "resolved"
        /\ Issues[j].status = "reported"
        /\ Issues[j].updated_at > Issues[j].created_at

====
